---- MODULE Spec2Model ----
(***************************************************************************)
(* Quart request argument parser (quartparser.py) driven by the webargs    *)
(* AsyncParser.  One parse of a request resolves every field of the schema *)
(* through the resolver of the field's location, then loads the resolved   *)
(* mapping through the schema and either hands the validated mapping to    *)
(* the wrapped view function or aborts the request.                        *)
(* The coroutines parse_form and parse_json are cut at their await points, *)
(* so the parses of different requests interleave exactly there.           *)
(***************************************************************************)
EXTENDS Integers, Sequences, FiniteSets, TLC

\* ------------------------------------------------------------------ bounds
NumRequests == 2
MaxFields == 2

Requests == 1..NumRequests

\* --------------------------------------------------------------- constants
DEFAULT_VALIDATION_STATUS == 422
INVALID_JSON_STATUS == 400

\* ------------------------------------------------------------ value domain
missing == "missing"

FieldNames == <<"name", "id", "page", "sort">>
Names == {FieldNames[i] : i \in 1..Len(FieldNames)}

EmptyMap == [n \in {} |-> "Ann"]

\* Python objects a decode can produce: None or a dict.
PyNone == [tag |-> "None", d |-> EmptyMap]
PyDict(m) == [tag |-> "dict", d |-> m]

JSONMimetypes == {"application/json", "application/vnd.api+json"}
FormMimetype == "application/x-www-form-urlencoded"
Mimetypes == {"application/json", FormMimetype, "text/plain"}

EmptyBody == ""
NullBody == "null"
ObjectBody == "{\"name\": \"Ann\", \"id\": \"x\"}"
MalformedBody == "{bad"
FormBody == "name=Ann&id=42"
Bodies == {EmptyBody, NullBody, ObjectBody, MalformedBody, FormBody}

ArgMaps == {EmptyMap, [n \in {"name"} |-> "Ann"]}

\* ------------------------------------------------------ external decoders
\* json.loads on the document of the request: a value, or JSONDecodeError
\* carrying the document (e.doc).
JSONLoads(doc) ==
    CASE doc = NullBody -> [ok |-> TRUE, value |-> PyNone, doc |-> doc]
      [] doc = ObjectBody ->
            [ok |-> TRUE,
             value |-> PyDict([n \in {"name", "id"} |->
                                  IF n = "name" THEN "Ann" ELSE "x"]),
             doc |-> doc]
      [] OTHER -> [ok |-> FALSE, value |-> PyNone, doc |-> doc]

\* await req.form: the MultiDict of a form-encoded body, empty otherwise.
FormLoads(mimetype, body) ==
    IF mimetype = FormMimetype /\ body = FormBody
    THEN PyDict([n \in {"name", "id"} |-> IF n = "name" THEN "Ann" ELSE "42"])
    ELSE PyDict(EmptyMap)

\* core.get_value: data.get(name, missing); missing when data has no get.
get_value(data, name) ==
    IF data.tag = "dict" /\ name \in DOMAIN data.d THEN data.d[name]
    ELSE missing

\* core.is_json(req.mimetype)
is_json_request(r) == r.mimetype \in JSONMimetypes

\* ------------------------------------------------------------------ inputs
Locations == {"view_args", "querystring", "form", "json",
              "headers", "cookies", "files"}

\* A live request: mimetype, raw body, and the mappings of its other sources.
MkRequest(mt, b, m) ==
    [mimetype |-> mt, body |-> b, view_args |-> m, args |-> m,
     headers |-> m, cookies |-> m, files |-> m]
RequestSet == {MkRequest(mt, b, m) : mt \in Mimetypes, b \in Bodies, m \in ArgMaps}

\* A schema: field descriptors in declaration order, one name per position.
FieldSet(i) == [name : {FieldNames[i]}, location : Locations, required : BOOLEAN]
SchemasOfLen(k) == {s \in [1..k -> UNION {FieldSet(i) : i \in 1..k}] :
                        \A i \in 1..k : s[i].name = FieldNames[i]}
SchemaSet == UNION {SchemasOfLen(k) : k \in 1..MaxFields}

\* error_status_code given to use_args for the route: None (not given) or an
\* integer.
NoOverride == [given |-> FALSE, code |-> 0]
StatusOverrides == {NoOverride} \cup {[given |-> TRUE, code |-> c] : c \in {0, 409}}

\* Inputs of the concurrent specification: requests and schemas that touch
\* the body decode cache.
ConcRequestSet == {MkRequest("application/json", ObjectBody, EmptyMap),
                   MkRequest("application/json", MalformedBody, EmptyMap),
                   MkRequest(FormMimetype, FormBody, EmptyMap)}
Field(i, loc, rq) == [name |-> FieldNames[i], location |-> loc, required |-> rq]
ConcSchemaSet == {<<Field(1, "form", FALSE), Field(2, "form", TRUE)>>,
                  <<Field(1, "json", FALSE), Field(2, "json", FALSE)>>,
                  <<Field(1, "querystring", FALSE), Field(2, "view_args", FALSE),
                    Field(3, "form", FALSE)>>,
                  <<Field(1, "headers", FALSE), Field(2, "cookies", FALSE),
                    Field(3, "files", FALSE), Field(4, "json", FALSE)>>}

\* ------------------------------------------------------------------- state
VARIABLES
    req,          \* req[r]: the request object (owned by the framework)
    schema,       \* schema[r]: the argmap of the route serving r
    pc,           \* pc[r]: where the parse coroutine of r stands
    cache,        \* cache[r]: self._cache of the parser serving the parse of r
    resolved,     \* resolved[r][i]: value the resolver returned for field i
    term,         \* "pending", "returned" or "aborted"
    http_status,  \* status code of the HTTPException, 0 when none
    messages,     \* err.data["messages"] of the HTTPException
    handler,      \* the wrapped view function: called or not, and its args
    error_status_code,  \* the error_status_code argument of the parse of r
    form_awaits,  \* number of times req.form was awaited
    json_awaits   \* number of times req.json was awaited

vars == <<req, schema, pc, cache, resolved, term, http_status, messages,
          handler, error_status_code, form_awaits, json_awaits>>

EmptyCache == [post |-> [set |-> FALSE, value |-> PyNone],
               json |-> [set |-> FALSE, value |-> PyNone]]

\* Faulty variant: dict.get(key, {}), an empty dict when the key is absent.
cache_get_or_empty(c, key) ==
    IF c[key].set THEN c[key].value ELSE PyDict(EmptyMap)

\* dict.get(key): None when the key is absent.
cache_get(c, key) == IF c[key].set THEN c[key].value ELSE PyNone
cache_put(c, key, v) == [c EXCEPT ![key] = [set |-> TRUE, value |-> v]]

NotCalled == [called |-> FALSE, args |-> EmptyMap]
NoMessages == [n \in {} |-> <<"x">>]

DefaultRequest == MkRequest("text/plain", EmptyBody, EmptyMap)
DefaultSchema == <<Field(1, "querystring", FALSE)>>

InitRest ==
    /\ cache = [r \in Requests |-> EmptyCache]
    /\ resolved = [r \in Requests |-> <<>>]
    /\ term = [r \in Requests |-> "pending"]
    /\ http_status = [r \in Requests |-> 0]
    /\ messages = [r \in Requests |-> NoMessages]
    /\ handler = [r \in Requests |-> NotCalled]
    /\ form_awaits = [r \in Requests |-> 0]
    /\ json_awaits = [r \in Requests |-> 0]

\* One request in flight, every input shape.
Init ==
    /\ \E q \in RequestSet : req = [r \in Requests |-> IF r = 1 THEN q ELSE DefaultRequest]
    /\ \E s \in SchemaSet : schema = [r \in Requests |-> IF r = 1 THEN s ELSE DefaultSchema]
    /\ \E esc \in StatusOverrides :
          error_status_code = [r \in Requests |-> IF r = 1 THEN esc ELSE NoOverride]
    /\ pc = [r \in Requests |-> IF r = 1 THEN "idle" ELSE "off"]
    /\ InitRest

\* Every request in flight at once, served by the module-level parser.
InitConc ==
    /\ req \in [Requests -> ConcRequestSet]
    /\ schema \in [Requests -> ConcSchemaSet]
    /\ error_status_code = [r \in Requests |-> NoOverride]
    /\ pc = [r \in Requests |-> "idle"]
    /\ InitRest

\* ------------------------------------------------------------ parse driver
\* Parser._clone(): every parse runs on its own copy of the module-level
\* parser, so self in the resolvers is the copy made for that parse.
ParserOf(r) == r

\* The field the parse loop of r is about to resolve.
NextIndex(r) == Len(resolved[r]) + 1
Resolving(r) == pc[r] = "resolve" /\ NextIndex(r) <= Len(schema[r])
CurrentField(r) == schema[r][NextIndex(r)]
AtLocation(r, loc) == Resolving(r) /\ CurrentField(r).location = loc

\* The resolver hands its value back to the parse loop.
Return(r, value) ==
    /\ resolved' = [resolved EXCEPT ![r] = Append(@, value)]
    /\ pc' = [pc EXCEPT ![r] = "resolve"]

\* parsed dict of _parse_request: the fields whose value is not missing.
Parsed(r) ==
    LET present == {i \in 1..Len(resolved[r]) : resolved[r][i] # missing}
    IN [n \in {schema[r][i].name : i \in present} |->
            resolved[r][CHOOSE i \in present : schema[r][i].name = n]]

\* parse(): clear the cache of the parser, then start resolving the fields.
parse(r) ==
    /\ pc[r] = "idle"
    /\ pc' = [pc EXCEPT ![r] = "resolve"]
    /\ cache' = [cache EXCEPT ![ParserOf(r)] = EmptyCache]
    /\ UNCHANGED <<req, schema, resolved, term, http_status, messages,
                   handler, error_status_code, form_awaits, json_awaits>>

\* --------------------------------------------------------------- resolvers
\* core.get_value on one of the request's mappings, handed back at once.
SyncReturn(r, source) ==
    /\ Return(r, get_value(PyDict(source), CurrentField(r).name))
    /\ UNCHANGED <<req, schema, cache, term, http_status, messages,
                   handler, error_status_code, form_awaits, json_awaits>>

parse_view_args(r) ==
    /\ AtLocation(r, "view_args")
    /\ SyncReturn(r, req[r].view_args)

parse_querystring(r) ==
    /\ AtLocation(r, "querystring")
    /\ SyncReturn(r, req[r].args)

parse_headers(r) ==
    /\ AtLocation(r, "headers")
    /\ SyncReturn(r, req[r].headers)

parse_cookies(r) ==
    /\ AtLocation(r, "cookies")
    /\ SyncReturn(r, req[r].cookies)

parse_files(r) ==
    /\ AtLocation(r, "files")
    /\ SyncReturn(r, req[r].files)

\* parse_form up to its await: a cached form is used, otherwise the
\* coroutine suspends on req.form.
parse_form(r) ==
    /\ AtLocation(r, "form")
    /\ LET post_data == cache_get(cache[ParserOf(r)], "post")
       IN IF post_data = PyNone
          THEN /\ pc' = [pc EXCEPT ![r] = "form_await"]
               /\ form_awaits' = [form_awaits EXCEPT ![r] = @ + 1]
               /\ UNCHANGED resolved
          ELSE /\ Return(r, get_value(cache[ParserOf(r)]["post"].value,
                                      CurrentField(r).name))
               /\ UNCHANGED form_awaits
    /\ UNCHANGED <<req, schema, cache, term, http_status, messages,
                   handler, error_status_code, json_awaits>>

\* Faulty variant: the decoded form stored under the key of the document.
FormKeyClash == "json"

\* Key of the cache parse_form stores the decoded form under.
FormKey == "post"

\* parse_form resumed with the decoded form.
parse_form_resume(r) ==
    /\ pc[r] = "form_await"
    /\ LET c == cache_put(cache[ParserOf(r)], FormKey,
                          FormLoads(req[r].mimetype, req[r].body))
       IN /\ cache' = [cache EXCEPT ![ParserOf(r)] = c]
          /\ Return(r, get_value(c["post"].value, CurrentField(r).name))
    /\ UNCHANGED <<req, schema, term, http_status, messages,
                   handler, error_status_code, form_awaits, json_awaits>>

\* ------------------------------------------------------------------ aborts
\* Faulty variant: the HTTPException is filled in but not raised again, so
\* parse returns and the view function is called with no data.
abort_not_raised(r, http_status_code, msgs) ==
    /\ term' = [term EXCEPT ![r] = "aborted"]
    /\ http_status' = [http_status EXCEPT ![r] = http_status_code]
    /\ messages' = [messages EXCEPT ![r] = msgs]
    /\ pc' = [pc EXCEPT ![r] = "done"]
    /\ handler' = [handler EXCEPT ![r] = [called |-> TRUE, args |-> EmptyMap]]

\* abort(): quart.abort raises HTTPException; the keyword arguments are
\* attached to it and it is raised again, so it leaves parse and the
\* use_args wrapper without the view function being called.
abort(r, http_status_code, msgs) ==
    /\ term' = [term EXCEPT ![r] = "aborted"]
    /\ http_status' = [http_status EXCEPT ![r] = http_status_code]
    /\ messages' = [messages EXCEPT ![r] = msgs]
    /\ pc' = [pc EXCEPT ![r] = "done"]
    /\ UNCHANGED handler

InvalidJSONMessages == [n \in {"json"} |-> <<"Invalid JSON body.">>]

\* handle_invalid_json_error: abort(400, messages={"json": [...]}).
handle_invalid_json_error(r) == abort(r, INVALID_JSON_STATUS, InvalidJSONMessages)

\* parse_json up to its first await (req.body).
parse_json(r) ==
    /\ AtLocation(r, "json")
    /\ pc' = [pc EXCEPT ![r] = "body_await"]
    /\ UNCHANGED <<req, schema, cache, resolved, term, http_status, messages,
                   handler, error_status_code, form_awaits, json_awaits>>

\* Faulty variant: the mimetype of the request is not looked at.
ShouldDecodeAnyBody(q) == q.body # EmptyBody

\* The guard of parse_json: decode only a non-empty body of a JSON request.
ShouldDecodeJSON(q) == q.body # EmptyBody /\ is_json_request(q)

\* Faulty variant: an empty body of a JSON request is reported as an
\* invalid body.
parse_json_body_strict(r) ==
    /\ pc[r] = "body_await"
    /\ IF req[r].body = EmptyBody /\ is_json_request(req[r])
       THEN /\ handle_invalid_json_error(r)
            /\ UNCHANGED <<resolved, json_awaits>>
       ELSE /\ UNCHANGED <<term, http_status, messages, handler>>
            /\ IF ~ShouldDecodeJSON(req[r])
               THEN /\ Return(r, missing)
                    /\ UNCHANGED json_awaits
               ELSE IF cache_get(cache[ParserOf(r)], "json") = PyNone
               THEN /\ pc' = [pc EXCEPT ![r] = "json_await"]
                    /\ json_awaits' = [json_awaits EXCEPT ![r] = @ + 1]
                    /\ UNCHANGED resolved
               ELSE /\ Return(r, get_value(cache_get(cache[ParserOf(r)], "json"),
                                           CurrentField(r).name))
                    /\ UNCHANGED json_awaits
    /\ UNCHANGED <<req, schema, cache, error_status_code, form_awaits>>

\* parse_json resumed with the raw body, up to its second await (req.json).
parse_json_body(r) ==
    /\ pc[r] = "body_await"
    /\ IF ~ShouldDecodeJSON(req[r])
       THEN /\ Return(r, missing)
            /\ UNCHANGED json_awaits
       ELSE LET json_data == cache_get(cache[ParserOf(r)], "json")
            IN IF json_data = PyNone
               THEN /\ pc' = [pc EXCEPT ![r] = "json_await"]
                    /\ json_awaits' = [json_awaits EXCEPT ![r] = @ + 1]
                    /\ UNCHANGED resolved
               ELSE /\ Return(r, get_value(json_data, CurrentField(r).name))
                    /\ UNCHANGED json_awaits
    /\ UNCHANGED <<req, schema, cache, term, http_status, messages,
                   handler, error_status_code, form_awaits>>

\* Faulty variant: the decoded document stored under the key of the form.
JSONKeyClash == "post"

\* Key of the cache parse_json stores the decoded document under.
JSONKey == "json"

\* Faulty variant: every JSONDecodeError is swallowed.
SwallowAnyDecodeError(doc) == TRUE

\* What parse_json does with a JSONDecodeError: missing for an empty
\* document, the invalid-body abort otherwise.
SwallowDecodeError(doc) == doc = ""

\* parse_json resumed with the outcome of req.json.
parse_json_resume(r) ==
    /\ pc[r] = "json_await"
    /\ LET res == JSONLoads(req[r].body)
       IN IF res.ok
          THEN /\ cache' = [cache EXCEPT ![ParserOf(r)] =
                                cache_put(@, JSONKey, res.value)]
               /\ Return(r, get_value(res.value, CurrentField(r).name))
               /\ UNCHANGED <<term, http_status, messages, handler>>
          ELSE IF SwallowDecodeError(res.doc)
          THEN /\ Return(r, missing)
               /\ UNCHANGED <<cache, term, http_status, messages, handler>>
          ELSE /\ handle_invalid_json_error(r)
               /\ UNCHANGED <<cache, resolved>>
    /\ UNCHANGED <<req, schema, error_status_code, form_awaits, json_awaits>>

\* ----------------------------------------------------- schema load, errors
IntOf == [v \in {"42"} |-> 42]
TypeOf(name) == IF name \in {"id", "page"} THEN "int" ELSE "str"
ValidValue(name, v) == TypeOf(name) = "str" \/ v \in DOMAIN IntOf
Deserialize(name, v) == IF TypeOf(name) = "int" THEN IntOf[v] ELSE v

\* schema.load(parsed): the failing fields, each with its messages.
ValidationErrors(sch, data) ==
    {sch[i].name : i \in {j \in 1..Len(sch) :
        IF sch[j].name \in DOMAIN data
        THEN ~ValidValue(sch[j].name, data[sch[j].name])
        ELSE sch[j].required}}
ErrorMessages(sch, data) ==
    [n \in ValidationErrors(sch, data) |->
        IF n \in DOMAIN data THEN <<"Not a valid integer.">>
        ELSE <<"Missing data for required field.">>]
Load(data) == [n \in DOMAIN data |-> Deserialize(n, data[n])]

AllResolved(r) == pc[r] = "resolve" /\ NextIndex(r) > Len(schema[r])

\* parse returns the loaded data and use_args calls the view function.
parse_return(r) ==
    /\ AllResolved(r)
    /\ ValidationErrors(schema[r], Parsed(r)) = {}
    /\ term' = [term EXCEPT ![r] = "returned"]
    /\ handler' = [handler EXCEPT ![r] = [called |-> TRUE, args |-> Load(Parsed(r))]]
    /\ pc' = [pc EXCEPT ![r] = "done"]
    /\ UNCHANGED <<req, schema, cache, resolved, http_status, messages,
                   error_status_code, form_awaits, json_awaits>>

\* Faulty variant: the caller's status is ignored.
default_status_code(esc) == DEFAULT_VALIDATION_STATUS

\* status_code = error_status_code or self.DEFAULT_VALIDATION_STATUS
status_code(esc) ==
    IF esc.given /\ esc.code # 0 THEN esc.code ELSE DEFAULT_VALIDATION_STATUS

\* Faulty variant: only one failing field is passed on.
first_error_message(msgs) ==
    [n \in {CHOOSE m \in DOMAIN msgs : TRUE} |-> msgs[n]]

\* messages=error.messages
error_messages(msgs) == msgs

\* handle_error, reached from the ValidationError raised by schema.load.
handle_error(r) ==
    /\ AllResolved(r)
    /\ ValidationErrors(schema[r], Parsed(r)) # {}
    /\ abort(r, status_code(error_status_code[r]),
             error_messages(ErrorMessages(schema[r], Parsed(r))))
    /\ UNCHANGED <<req, schema, cache, resolved, error_status_code,
                   form_awaits, json_awaits>>

\* ----------------------------------------------------------- specification
Next ==
    \E r \in Requests :
        \/ parse(r)
        \/ parse_view_args(r)
        \/ parse_querystring(r)
        \/ parse_headers(r)
        \/ parse_cookies(r)
        \/ parse_files(r)
        \/ parse_form(r)
        \/ parse_form_resume(r)
        \/ parse_json(r)
        \/ parse_json_body(r)
        \/ parse_json_resume(r)
        \/ parse_return(r)
        \/ handle_error(r)

Spec == Init /\ [][Next]_vars
SpecConc == InitConc /\ [][Next]_vars

\* ------------------------------------------------------------- properties
FieldsDone(r) == 1..Len(resolved[r])
LocationOf(r, i) == schema[r][i].location
NameOf(r, i) == schema[r][i].name
JSONFields(r) == {i \in 1..Len(schema[r]) : LocationOf(r, i) = "json"}
FirstJSONField(r) == CHOOSE i \in JSONFields(r) : \A j \in JSONFields(r) : i <= j
InvalidJSONAbort(r) == term[r] = "aborted" /\ messages[r] = InvalidJSONMessages
ValidationAbort(r) == term[r] = "aborted" /\ messages[r] # InvalidJSONMessages
MalformedBodyOf(r) == req[r].body # "" /\ ~JSONLoads(req[r].body).ok
SentAsJSON(r) == req[r].mimetype \in JSONMimetypes
OwnForm(r) == FormLoads(req[r].mimetype, req[r].body)
OwnJSON(r) == JSONLoads(req[r].body)

\* C1: during one parse of a request, req.form is awaited at most once and
\* req.json is awaited at most once, whatever the fields and the decoded body.
C1_DecodeAtMostOnce ==
    \A r \in Requests : form_awaits[r] <= 1 /\ json_awaits[r] <= 1

C3_AnyMalformedBodyAborts ==
    \A r \in Requests :
        (MalformedBodyOf(r) /\ JSONFields(r) # {} /\ pc[r] = "done") =>
            /\ InvalidJSONAbort(r)
            /\ http_status[r] = 400
            /\ ~handler[r].called
            /\ Len(resolved[r]) = FirstJSONField(r) - 1

\* C3 amended: a request sent with a JSON mimetype whose body is non-empty
\* and not valid JSON, parsed against a schema with a JSON field, ends
\* aborted with 400 and {"json": ["Invalid JSON body."]}; no field at or past
\* the first JSON field is ever resolved, no per-field error is reported and
\* the view function is never called.
C3_MalformedJSONAborts ==
    \A r \in Requests :
        (MalformedBodyOf(r) /\ SentAsJSON(r) /\ JSONFields(r) # {}) =>
            /\ Len(resolved[r]) < FirstJSONField(r)
            /\ term[r] # "returned"
            /\ ~handler[r].called
            /\ pc[r] = "done" =>
                  /\ InvalidJSONAbort(r)
                  /\ http_status[r] = 400
                  /\ messages[r] = [n \in {"json"} |-> <<"Invalid JSON body.">>]
                  /\ Len(resolved[r]) = FirstJSONField(r) - 1

\* A malformed JSON request aborted at its first field, a second field left
\* unresolved.
C3_Witness ==
    \E r \in Requests :
        /\ MalformedBodyOf(r) /\ SentAsJSON(r)
        /\ Len(schema[r]) = 2 /\ LocationOf(r, 1) = "json"
        /\ pc[r] = "done" /\ http_status[r] = 400
        /\ resolved[r] = <<>>

\* C4: for an empty body sent as JSON every JSON field resolves to missing
\* and parse_json never aborts; a decode error on an empty document is
\* classified as missing too.
C4_EmptyJSONBodyIsMissing ==
    /\ \A r \in Requests :
          (SentAsJSON(r) /\ req[r].body = "") =>
              /\ \A i \in FieldsDone(r) :
                    LocationOf(r, i) = "json" => resolved[r][i] = missing
              /\ ~InvalidJSONAbort(r)
              /\ http_status[r] # 400
    /\ \A doc \in Bodies :
          (~JSONLoads(doc).ok /\ doc = "") => SwallowDecodeError(doc)

\* An empty JSON request whose JSON field was resolved, the parse finished.
C4_Witness ==
    \E r \in Requests :
        /\ SentAsJSON(r) /\ req[r].body = ""
        /\ pc[r] = "done"
        /\ \E i \in FieldsDone(r) : LocationOf(r, i) = "json"

\* The fields of r that fail validation, read off the resolved values.
FailingFields(r) ==
    {NameOf(r, i) : i \in {j \in FieldsDone(r) :
        \/ resolved[r][j] = missing /\ schema[r][j].required
        \/ resolved[r][j] # missing /\ TypeOf(NameOf(r, j)) = "int"
                                    /\ resolved[r][j] # "42"}}

\* C5: a validation abort happens once, after every field was resolved, and
\* its messages have an entry for every failing field (every absent required
\* field included), with status 422 when the caller gave no status.
C5_AllFailuresReported ==
    \A r \in Requests :
        ValidationAbort(r) =>
            /\ pc[r] = "done"
            /\ Len(resolved[r]) = Len(schema[r])
            /\ DOMAIN messages[r] = FailingFields(r)
            /\ \A i \in FieldsDone(r) :
                  (schema[r][i].required /\ resolved[r][i] = missing) =>
                      /\ NameOf(r, i) \in DOMAIN messages[r]
                      /\ messages[r][NameOf(r, i)] # <<>>
            /\ ~error_status_code[r].given => http_status[r] = 422

\* Two fields failed and both are reported.
C5_Witness ==
    \E r \in Requests :
        /\ ValidationAbort(r)
        /\ Cardinality(DOMAIN messages[r]) = 2
        /\ http_status[r] = 422

\* C6: a parse ends either returned, with the view function called on a
\* mapping of exactly the present fields, all valid, or aborted, with the
\* view function never called; it is never called when a field failed or the
\* JSON body was malformed.
C6_NoPartialSuccess ==
    \A r \in Requests :
        /\ term[r] \in {"pending", "returned", "aborted"}
        /\ pc[r] = "done" <=> term[r] # "pending"
        /\ term[r] = "returned" <=> handler[r].called
        /\ term[r] = "aborted" => ~handler[r].called /\ http_status[r] # 0
        /\ handler[r].called =>
              /\ Len(resolved[r]) = Len(schema[r])
              /\ FailingFields(r) = {}
              /\ DOMAIN handler[r].args =
                    {NameOf(r, i) : i \in {j \in FieldsDone(r) :
                                               resolved[r][j] # missing}}
              /\ ~(MalformedBodyOf(r) /\ SentAsJSON(r) /\ JSONFields(r) # {})

\* Both ends happen: this state is an abort after a failed validation.
C6_Witness ==
    \E r \in Requests :
        /\ term[r] = "aborted" /\ ValidationAbort(r)
        /\ ~handler[r].called
        /\ Len(resolved[r]) = Len(schema[r])

\* C7 as stated: a validation abort carries the caller's error_status_code
\* for every value the caller gives, 422 when none is given; the malformed
\* JSON abort carries 400.
C7_EveryOverrideWins ==
    \A r \in Requests :
        /\ ValidationAbort(r) =>
              http_status[r] = IF error_status_code[r].given
                               THEN error_status_code[r].code ELSE 422
        /\ InvalidJSONAbort(r) => http_status[r] = 400

\* C7 amended: a validation abort carries the caller's error_status_code
\* when one is given and it is not 0, and 422 when none is given or 0 is
\* given; the malformed JSON abort carries 400 whatever was given.
C7_TruthyOverrideWins ==
    \A r \in Requests :
        /\ ValidationAbort(r) =>
              http_status[r] =
                  IF error_status_code[r].given /\ error_status_code[r].code # 0
                  THEN error_status_code[r].code ELSE 422
        /\ InvalidJSONAbort(r) => http_status[r] = 400

\* A validation abort under an override, and the override is the status.
C7_Witness ==
    \E r \in Requests :
        /\ ValidationAbort(r)
        /\ error_status_code[r] = [given |-> TRUE, code |-> 409]
        /\ http_status[r] = 409

SyncLocations == {"view_args", "querystring", "headers", "cookies", "files"}
Stepped(r) == pc'[r] # pc[r] \/ resolved'[r] # resolved[r]
CacheOf(r) == cache[ParserOf(r)]

\* C8: no resolver step changes the request; a step of parse_view_args,
\* parse_querystring, parse_headers, parse_cookies or parse_files leaves the
\* cache unchanged, a step of parse_form changes at most the entry "post"
\* and a step of parse_json at most the entry "json".
C8_ResolverFrame ==
    [][\A r \in Requests :
          /\ (Resolving(r) /\ CurrentField(r).location \in SyncLocations
                /\ Stepped(r))
                => req' = req /\ cache' = cache
          /\ ((AtLocation(r, "form") \/ pc[r] = "form_await") /\ Stepped(r))
                => /\ req' = req
                   /\ cache'[ParserOf(r)].json = CacheOf(r).json
                   /\ \A p \in Requests : p # ParserOf(r) => cache'[p] = cache[p]
          /\ ((AtLocation(r, "json") \/ pc[r] \in {"body_await", "json_await"})
                /\ Stepped(r))
                => /\ req' = req
                   /\ cache'[ParserOf(r)].post = CacheOf(r).post
                   /\ \A p \in Requests : p # ParserOf(r) => cache'[p] = cache[p]
      ]_vars

\* Both body resolvers have written their entry.
C8_Witness ==
    \E r \in Requests : CacheOf(r).post.set /\ CacheOf(r).json.set

C10_NonJSONNeverDecoded ==
    \A r \in Requests :
        /\ json_awaits[r] > 0 => (req[r].body # "" /\ SentAsJSON(r))
        /\ ~SentAsJSON(r) =>
              /\ json_awaits[r] = 0
              /\ ~CacheOf(r).json.set
              /\ ~InvalidJSONAbort(r)
              /\ http_status[r] # 400
              /\ \A i \in FieldsDone(r) :
                    LocationOf(r, i) = "json" => resolved[r][i] = missing

\* A non-JSON request carrying a malformed body went through a JSON field.
C10_Witness ==
    \E r \in Requests :
        /\ ~SentAsJSON(r) /\ req[r].body = MalformedBody
        /\ pc[r] = "done"
        /\ \E i \in FieldsDone(r) : LocationOf(r, i) = "json"

====
